---------------------------- MODULE Spec2Model ----------------------------
(***************************************************************************)
(* The dots animation (registry, compositor, compound operations, init and *)
(* cleanup) as a state machine.                                            *)
(*                                                                         *)
(* Numbers.  JavaScript numbers are modelled as fixed-point integers with  *)
(* three decimals (the real 1.0 is F = 1000): pixels, fractions, scales,   *)
(* opacities and blend factors.  Angles are whole degrees; Math.sin and    *)
(* Math.cos are a table of sines of whole degrees, three decimals.         *)
(*                                                                         *)
(* Objects.  A DotState object is an entry of the heap objs and is named   *)
(* by its index (a reference): timelines keep references to the objects    *)
(* they tween, the registry maps ids to references.  Elements are          *)
(* numbered: elements 1 and 2 are the page's own #dot1 and #dot2, element  *)
(* r + 2 is the <svg> synthesized by the createDot call that made object r.*)
(*                                                                         *)
(* Timelines.  A gsap timeline is observed at a few of its times: the      *)
(* timelines of splitDot and mergeDots at four ticks each, the scroll-     *)
(* scrubbed master timeline at the scroll positions of Keys.  A tween      *)
(* part-way is half-way between its current and its end value.             *)
(* ScrollTrigger.kill() kills the timeline the trigger drives; a timeline  *)
(* made by gsap.timeline() without a trigger is stopped by nothing here.   *)
(* ScrollTrigger.refresh() changes none of the state modelled.             *)
(***************************************************************************)
EXTENDS Integers, Sequences, FiniteSets, TLC

\* ------------------------------------------------------------ bounds
MaxObjects == 4
MaxHandlers == 2
MaxAnims == 1
MaxAngle == 90
MaxSteps == 4

\* ------------------------------------------------------------ numbers
F == 1000

Mul(a, b) == (a * b) \div F

Min(a, b) == IF a < b THEN a ELSE b

\* Body applied to the value of v (v is evaluated once)
With(v, Body(_)) == CHOOSE r \in {Body(x) : x \in {v}} : TRUE

SinTable ==
  <<0, 17, 35, 52, 70, 87, 105, 122, 139, 156, 174, 191, 208, 225, 242,
    259, 276, 292, 309, 326, 342, 358, 375, 391, 407, 423, 438, 454, 469,
    485, 500, 515, 530, 545, 559, 574, 588, 602, 616, 629, 643, 656, 669,
    682, 695, 707, 719, 731, 743, 755, 766, 777, 788, 799, 809, 819, 829,
    839, 848, 857, 866, 875, 883, 891, 899, 906, 914, 921, 927, 934, 940,
    946, 951, 956, 961, 966, 970, 974, 978, 982, 985, 988, 990, 993, 995,
    996, 998, 999, 999, 1000, 1000>>

\* Math.sin((deg * Math.PI) / 180), deg a whole number of degrees
Sin(deg) ==
  LET d == deg % 360 IN
  IF d <= 90 THEN SinTable[d + 1]
  ELSE IF d <= 180 THEN SinTable[180 - d + 1]
  ELSE IF d <= 270 THEN 0 - SinTable[d - 180 + 1]
  ELSE 0 - SinTable[360 - d + 1]

\* Math.cos((deg * Math.PI) / 180)
Cos(deg) == Sin(deg + 90)

\* ------------------------------------------------------------ names
Ids == {"dot1", "dot2", "a"}

NullId == "null"

\* colors (hex strings in the source)
ColorDark == "#1a1a1a"
ColorGreen == "#5a9a3e"
ColorOrange == "#e08840"

NumAnchors == 2

\* element 0 is "no element" (null)
NoElement == 0

AnchorElement(id) == IF id = "dot1" THEN 1 ELSE 2

SynthElement(ref) == ref + NumAnchors

Elements == 1..(NumAnchors + MaxObjects + 1)

\* ------------------------------------------------------------ state
VARIABLES
  objs,           \* heap of DotState objects, a reference is an index
  dots,           \* the Map dots: sequence of [id, ref] in insertion order
  dom,            \* per element: attached, id attribute, styles, attributes
  container,      \* container is non-null
  logo,           \* logo is non-null
  resizeHandler,  \* 0 = null, else the closure's number
  listeners,      \* closures registered on window "resize"
  nHandlers,      \* closures created so far
  globalState,    \* [orbitAngle, orbitRadius]
  ellipseOrbit,   \* [centerX, centerY, radiusX, radiusY, depthScale, angle]
  ellipseBlend,
  masters,        \* live scroll-triggered master timelines
  anims,          \* timelines made by splitDot and mergeDots
  page,           \* the host page: which elements document.getElementById finds
  viewport,       \* window.innerWidth, window.innerHeight (pixels)
  last,           \* what the last operation was and did (observation only)
  legacy          \* the legacy variant's closure: vw, vh, state.centerX/Y, timer

vars == <<objs, dots, dom, container, logo, resizeHandler, listeners, nHandlers,
          globalState, ellipseOrbit, ellipseBlend, masters, anims, page,
          viewport, last, legacy>>

\* the program state as one record, so that operations compose
Cur ==
  [objs |-> objs, dots |-> dots, dom |-> dom, container |-> container,
   logo |-> logo, resizeHandler |-> resizeHandler, listeners |-> listeners,
   nHandlers |-> nHandlers, globalState |-> globalState,
   ellipseOrbit |-> ellipseOrbit, ellipseBlend |-> ellipseBlend,
   masters |-> masters, anims |-> anims, page |-> page, viewport |-> viewport,
   renders |-> 0, seen |-> <<>>]

\* some render call of the operation read dot attributes that the operation
\* went on to change (orbitAngle aside, which render itself advances)
Partial(s) ==
  \E k \in 1..Len(s.seen) : \E r \in 1..Len(s.seen[k]) :
    [s.seen[k][r] EXCEPT !.orbitAngle = 0] # [s.objs[r] EXCEPT !.orbitAngle = 0]

Becomes(s, op) ==
  /\ objs' = s.objs
  /\ dots' = s.dots
  /\ dom' = s.dom
  /\ container' = s.container
  /\ logo' = s.logo
  /\ resizeHandler' = s.resizeHandler
  /\ listeners' = s.listeners
  /\ nHandlers' = s.nHandlers
  /\ globalState' = s.globalState
  /\ ellipseOrbit' = s.ellipseOrbit
  /\ ellipseBlend' = s.ellipseBlend
  /\ masters' = s.masters
  /\ anims' = s.anims
  /\ page' = s.page
  /\ viewport' = s.viewport
  /\ last' = [op EXCEPT !.renders = s.renders, !.partial = Partial(s)]
  /\ legacy' = legacy

\* ------------------------------------------------------------ registry
\* dots.get(id): the reference, 0 when undefined
Get(s, id) ==
  LET hits == {i \in 1..Len(s.dots) : s.dots[i].id = id} IN
  IF hits = {} THEN 0 ELSE s.dots[CHOOSE i \in hits : TRUE].ref

Has(s, id) == Get(s, id) # 0

\* dots.set(id, ref): an existing key keeps its place in the iteration order
MapSet(m, id, ref) ==
  IF \E i \in 1..Len(m) : m[i].id = id
  THEN [i \in 1..Len(m) |-> IF m[i].id = id THEN [id |-> id, ref |-> ref] ELSE m[i]]
  ELSE Append(m, [id |-> id, ref |-> ref])

\* dots.delete(id)
MapDelete(m, id) == SelectSeq(m, LAMBDA e : e.id # id)

\* a variant with || in place of ??: a supplied 0 or "" gives way to the default
OptOr(options, field, default) ==
  IF /\ field \in DOMAIN options
     /\ IF field \in {"parentId", "color"} THEN options[field] # ""
        ELSE options[field] # 0
  THEN options[field]
  ELSE default

Opt(options, field, default) ==
  IF field \in DOMAIN options THEN options[field] ELSE default

\* document.createElementNS(svg) with its circle child; not yet in the document
NewElementStyle(id) ==
  [attached |-> FALSE, domId |-> id, written |-> FALSE, tx |-> 0, ty |-> 0,
   width |-> 20 * F, height |-> 20 * F, opacity |-> F, fill |-> ColorDark,
   zIndex |-> ""]

createDotElement(s, id, el) ==
  [s EXCEPT !.dom[el] = NewElementStyle(id)]

\* createDot(id, options): the DotState is object Len(objs) + 1
createDot(s, id, options) ==
  LET ref == Len(s.objs) + 1
      given == Opt(options, "element", NoElement)
      element == IF given = NoElement THEN SynthElement(ref) ELSE given
      s1 == IF given = NoElement
            THEN \* container?.appendChild(element)
                 [createDotElement(s, id, element) EXCEPT
                    !.dom[element].attached = s.container]
            ELSE s
      dot == [id |-> id,
              element |-> element,
              baseXPercent |-> Opt(options, "baseXPercent", 0),
              baseYPercent |-> Opt(options, "baseYPercent", 0),
              offsetX |-> Opt(options, "offsetX", 0),
              offsetY |-> Opt(options, "offsetY", 0),
              baseSize |-> Opt(options, "baseSize", 24 * F),
              scale |-> Opt(options, "scale", F),
              scaleX |-> Opt(options, "scaleX", F),
              scaleY |-> Opt(options, "scaleY", F),
              orbitAngle |-> Opt(options, "orbitAngle", 0),
              orbitRadius |-> Opt(options, "orbitRadius", 0),
              color |-> Opt(options, "color", ColorDark),
              opacity |-> Opt(options, "opacity", F),
              parentId |-> Opt(options, "parentId", NullId),
              satelliteOrbitRadius |-> Opt(options, "satelliteOrbitRadius", 0),
              satelliteOrbitSpeed |-> Opt(options, "satelliteOrbitSpeed", 0)]
  IN [s1 EXCEPT !.objs = Append(s.objs, dot),
                !.dots = MapSet(s.dots, id, ref)]

\* a variant that deletes the entry and leaves the element in the page
removeDotKeepingElement(s, id) ==
  [s EXCEPT !.dots = MapDelete(s.dots, id)]

\* removeDot(id)
removeDot(s, id) ==
  LET ref == Get(s, id) IN
  IF ref # 0
  THEN [s EXCEPT !.dom[s.objs[ref].element].attached = FALSE,
                 !.dots = MapDelete(s.dots, id)]
  ELSE s

\* ------------------------------------------------------------ render
\* a variant whose default rectangle is 300 wide
GeometryNarrowDefault(s) ==
  LET viewportCenterX == (s.viewport.w * F) \div 2
      viewportCenterY == (s.viewport.h * F) \div 2
      r == s.page.logoRect
  IN IF s.logo
     THEN [vcx |-> viewportCenterX, vcy |-> viewportCenterY,
           logoX |-> r.left * F + (r.width * F) \div 2,
           logoY |-> r.top * F + (r.height * F) \div 2,
           logoWidth |-> r.width * F, logoHeight |-> r.height * F]
     ELSE [vcx |-> viewportCenterX, vcy |-> viewportCenterY,
           logoX |-> viewportCenterX, logoY |-> viewportCenterY,
           logoWidth |-> 300 * F, logoHeight |-> 100 * F]

\* viewport centre and the reference rectangle (logo, or the default one)
Geometry(s) ==
  LET viewportCenterX == (s.viewport.w * F) \div 2
      viewportCenterY == (s.viewport.h * F) \div 2
      r == s.page.logoRect
  IN IF s.logo
     THEN [vcx |-> viewportCenterX, vcy |-> viewportCenterY,
           logoX |-> r.left * F + (r.width * F) \div 2,
           logoY |-> r.top * F + (r.height * F) \div 2,
           logoWidth |-> r.width * F, logoHeight |-> r.height * F]
     ELSE [vcx |-> viewportCenterX, vcy |-> viewportCenterY,
           logoX |-> viewportCenterX, logoY |-> viewportCenterY,
           logoWidth |-> 400 * F, logoHeight |-> 100 * F]

\* Math.sin((globalState.orbitAngle * 0.08 * Math.PI) / 180) * 20, whole degrees
driftAmount(s, dot) ==
  IF dot.orbitAngle > 0
  THEN (Sin((s.globalState.orbitAngle * 8) \div 100) * 20) \div F
  ELSE 0

maxOrbitForBlend == 100

\* a variant whose blend factor is not clamped to 1
getRenderedPositionUnclamped(s, dot, g) ==
  LET logoRelX == g.logoX + Mul(g.logoWidth, dot.baseXPercent) + dot.offsetX
      logoRelY == g.logoY + Mul(g.logoHeight, dot.baseYPercent) + dot.offsetY
      angle == s.globalState.orbitAngle + dot.orbitAngle + driftAmount(s, dot)
      orbitX == g.vcx + Mul(Cos(angle), s.globalState.orbitRadius)
      orbitY == g.vcy + Mul(Sin(angle), s.globalState.orbitRadius)
      blendFactor == s.globalState.orbitRadius \div maxOrbitForBlend
  IN [x |-> logoRelX + Mul(orbitX - logoRelX, blendFactor),
      y |-> logoRelY + Mul(orbitY - logoRelY, blendFactor)]

getRenderedPosition(s, dot, g) ==
  LET logoRelX == g.logoX + Mul(g.logoWidth, dot.baseXPercent) + dot.offsetX
      logoRelY == g.logoY + Mul(g.logoHeight, dot.baseYPercent) + dot.offsetY
      angle == s.globalState.orbitAngle + dot.orbitAngle + driftAmount(s, dot)
      orbitX == g.vcx + Mul(Cos(angle), s.globalState.orbitRadius)
      orbitY == g.vcy + Mul(Sin(angle), s.globalState.orbitRadius)
      blendFactor == Min(s.globalState.orbitRadius \div maxOrbitForBlend, F)
  IN [x |-> logoRelX + Mul(orbitX - logoRelX, blendFactor),
      y |-> logoRelY + Mul(orbitY - logoRelY, blendFactor)]

\* a variant without the second dot's radius variation
EllipsePositionsNoVariation(s) ==
  IF s.ellipseBlend > 0 /\ Has(s, "dot1") /\ Has(s, "dot2")
  THEN LET e == s.ellipseOrbit
           angle1 == e.angle
           phaseDrift == (Sin((e.angle * 5) \div 100) * 25) \div F
           angle2 == angle1 + 180 + phaseDrift
       IN [has |-> TRUE,
           angle1 |-> angle1, angle2 |-> angle2,
           dot1 |-> [x |-> e.centerX + Mul(Cos(angle1), e.radiusX),
                     y |-> e.centerY + Mul(Sin(angle1), e.radiusY),
                     depthFactor |-> F + Mul(Mul(Sin(angle1), e.depthScale), s.ellipseBlend)],
           dot2 |-> [x |-> e.centerX + Mul(Cos(angle2), e.radiusX),
                     y |-> e.centerY + Mul(Sin(angle2), e.radiusY),
                     depthFactor |-> F + Mul(Mul(Sin(angle2), e.depthScale), s.ellipseBlend)]]
  ELSE [has |-> FALSE]

\* the ellipsePositions map of one render call: empty, or both primary dots
EllipsePositions(s) ==
  IF s.ellipseBlend > 0 /\ Has(s, "dot1") /\ Has(s, "dot2")
  THEN LET e == s.ellipseOrbit
           angle1 == e.angle
           phaseDrift == (Sin((e.angle * 5) \div 100) * 25) \div F
           angle2 == angle1 + 180 + phaseDrift
           radiusVariation == F + Mul(Sin((e.angle * 3) \div 100), 150)
       IN [has |-> TRUE,
           angle1 |-> angle1, angle2 |-> angle2,
           dot1 |-> [x |-> e.centerX + Mul(Cos(angle1), e.radiusX),
                     y |-> e.centerY + Mul(Sin(angle1), e.radiusY),
                     depthFactor |-> F + Mul(Mul(Sin(angle1), e.depthScale), s.ellipseBlend)],
           dot2 |-> [x |-> e.centerX + Mul(Mul(Cos(angle2), e.radiusX), radiusVariation),
                     y |-> e.centerY + Mul(Mul(Sin(angle2), e.radiusY), radiusVariation),
                     depthFactor |-> F + Mul(Mul(Sin(angle2), e.depthScale), s.ellipseBlend)]]
  ELSE [has |-> FALSE]

\* ellipsePositions.has(dot.id)
InEllipse(s, ell, dot) ==
  s.ellipseBlend > 0 /\ ell.has /\ dot.id \in {"dot1", "dot2"}

\* a variant that stacks whichever primary dot is registered
ApplyZIndexLone(s, ell) ==
  IF s.ellipseBlend > 500
  THEN LET s1 == IF Has(s, "dot1")
                 THEN [s EXCEPT !.dom[s.objs[Get(s, "dot1")].element].zIndex =
                         IF Sin(s.ellipseOrbit.angle) > 0 THEN "2" ELSE "1"]
                 ELSE s
       IN IF Has(s, "dot2")
          THEN [s1 EXCEPT !.dom[s.objs[Get(s, "dot2")].element].zIndex =
                  IF Sin(s.ellipseOrbit.angle + 180) > 0 THEN "2" ELSE "1"]
          ELSE s1
  ELSE s

\* a variant that stacks from blend 0.5 on
ApplyZIndexFromHalf(s, ell) ==
  IF ell.has /\ s.ellipseBlend >= 500
  THEN LET e1 == s.objs[Get(s, "dot1")].element
           e2 == s.objs[Get(s, "dot2")].element
           s1 == [s EXCEPT !.dom[e1].zIndex = IF Sin(ell.angle1) > 0 THEN "2" ELSE "1"]
       IN [s1 EXCEPT !.dom[e2].zIndex = IF Sin(ell.angle2) > 0 THEN "2" ELSE "1"]
  ELSE s

\* "Z-index when in ellipse mode"
ApplyZIndex(s, ell) ==
  IF ell.has /\ s.ellipseBlend > 500
  THEN LET e1 == s.objs[Get(s, "dot1")].element
           e2 == s.objs[Get(s, "dot2")].element
           s1 == [s EXCEPT !.dom[e1].zIndex = IF Sin(ell.angle1) > 0 THEN "2" ELSE "1"]
       IN [s1 EXCEPT !.dom[e2].zIndex = IF Sin(ell.angle2) > 0 THEN "2" ELSE "1"]
  ELSE s

\* if (dot.parentId): null and the empty string are falsy
Truthy(parentId) == parentId \notin {NullId, ""}

\* a variant that tests the parent id before the ellipse position
BranchParentFirst(s, ell, dot) ==
  IF Truthy(dot.parentId)
  THEN (IF Has(s, dot.parentId) THEN "satellite" ELSE "orphan")
  ELSE IF InEllipse(s, ell, dot) THEN "ellipse"
  ELSE "main"

\* a variant that places a dot with a missing parent as a main dot
BranchOrphanAsMain(s, ell, dot) ==
  IF InEllipse(s, ell, dot) THEN "ellipse"
  ELSE IF Truthy(dot.parentId) /\ Has(s, dot.parentId) THEN "satellite"
  ELSE "main"

\* which branch of the forEach body places the dot
Branch(s, ell, dot) ==
  IF InEllipse(s, ell, dot) THEN "ellipse"
  ELSE IF Truthy(dot.parentId)
       THEN (IF Has(s, dot.parentId) THEN "satellite" ELSE "orphan")
       ELSE "main"

\* a variant whose depth multiplier on the ellipse forgets the blend:
\* 1 + sin(angle) * depthScale
PlacementDepthUnblended(s, ell, g, dot) ==
  LET b == Branch(s, ell, dot) IN
  IF b = "ellipse"
  THEN LET globalPos == getRenderedPosition(s, dot, g)
           ellipsePos == IF dot.id = "dot1" THEN ell.dot1 ELSE ell.dot2
           angle == IF dot.id = "dot1" THEN ell.angle1 ELSE ell.angle2
       IN [x |-> globalPos.x + Mul(ellipsePos.x - globalPos.x, s.ellipseBlend),
           y |-> globalPos.y + Mul(ellipsePos.y - globalPos.y, s.ellipseBlend),
           depthMultiplier |-> F + Mul(Sin(angle), s.ellipseOrbit.depthScale)]
  ELSE IF b = "satellite"
  THEN LET parentPos == getRenderedPosition(s, s.objs[Get(s, dot.parentId)], g)
       IN [x |-> parentPos.x + Mul(Cos(dot.orbitAngle), dot.satelliteOrbitRadius),
           y |-> parentPos.y + Mul(Sin(dot.orbitAngle), dot.satelliteOrbitRadius),
           depthMultiplier |-> F]
  ELSE IF b = "orphan"
  THEN [x |-> g.vcx, y |-> g.vcy, depthMultiplier |-> F]
  ELSE LET pos == getRenderedPosition(s, dot, g)
       IN [x |-> pos.x, y |-> pos.y, depthMultiplier |-> F]

\* x, y and depthMultiplier computed by the forEach body for one dot
Placement(s, ell, g, dot) ==
  LET b == Branch(s, ell, dot) IN
  IF b = "ellipse"
  THEN LET globalPos == getRenderedPosition(s, dot, g)
           ellipsePos == IF dot.id = "dot1" THEN ell.dot1 ELSE ell.dot2
       IN [x |-> globalPos.x + Mul(ellipsePos.x - globalPos.x, s.ellipseBlend),
           y |-> globalPos.y + Mul(ellipsePos.y - globalPos.y, s.ellipseBlend),
           depthMultiplier |-> F + Mul(ellipsePos.depthFactor - F, s.ellipseBlend)]
  ELSE IF b = "satellite"
  THEN LET parentPos == getRenderedPosition(s, s.objs[Get(s, dot.parentId)], g)
       IN [x |-> parentPos.x + Mul(Cos(dot.orbitAngle), dot.satelliteOrbitRadius),
           y |-> parentPos.y + Mul(Sin(dot.orbitAngle), dot.satelliteOrbitRadius),
           depthMultiplier |-> F]
  ELSE IF b = "orphan"
  THEN [x |-> g.vcx, y |-> g.vcy, depthMultiplier |-> F]
  ELSE LET pos == getRenderedPosition(s, dot, g)
       IN [x |-> pos.x, y |-> pos.y, depthMultiplier |-> F]

\* a variant that advances every dot carrying a parent id
AdvanceOrbitAnyParent(s, ell, ref) ==
  LET dot == s.objs[ref] IN
  IF Truthy(dot.parentId) /\ dot.satelliteOrbitSpeed # 0
  THEN [s EXCEPT !.objs[ref].orbitAngle = dot.orbitAngle + dot.satelliteOrbitSpeed]
  ELSE s

\* "Continuous orbit animation": the side effect of the satellite branch
AdvanceOrbit(s, ell, ref) ==
  LET dot == s.objs[ref] IN
  IF Branch(s, ell, dot) = "satellite" /\ dot.satelliteOrbitSpeed # 0
  THEN [s EXCEPT !.objs[ref].orbitAngle = dot.orbitAngle + dot.satelliteOrbitSpeed]
  ELSE s

\* the forEach body for the dot stored as object ref
RenderDot(s, ell, g, ref) ==
  With(s.objs[ref], LAMBDA dot :
  With(Placement(s, ell, g, dot), LAMBDA p :
  LET baseSize == Mul(Mul(dot.baseSize, dot.scale), p.depthMultiplier)
      width == Mul(baseSize, dot.scaleX)
      height == Mul(baseSize, dot.scaleY)
  IN [AdvanceOrbit(s, ell, ref) EXCEPT !.dom[dot.element] =
        [@ EXCEPT !.written = TRUE,
                  !.tx = p.x - width \div 2,
                  !.ty = p.y - height \div 2,
                  !.width = width,
                  !.height = height,
                  !.opacity = dot.opacity,
                  !.fill = dot.color]]))

\* a variant whose loop is abandoned at a dot whose parent is missing
RECURSIVE RenderFromStopping(_, _, _, _)
RenderFromStopping(s, ell, g, i) ==
  IF i > Len(s.dots) THEN s
  ELSE IF Branch(s, ell, s.objs[s.dots[i].ref]) = "orphan" THEN s
  ELSE With(RenderDot(s, ell, g, s.dots[i].ref),
            LAMBDA t : RenderFromStopping(t, ell, g, i + 1))

RECURSIVE RenderFrom(_, _, _, _)
RenderFrom(s, ell, g, i) ==
  IF i > Len(s.dots) THEN s
  ELSE With(RenderDot(s, ell, g, s.dots[i].ref),
            LAMBDA t : RenderFrom(t, ell, g, i + 1))

\* a variant that leaves the ellipse centre where it was
renderKeepingCentre(s0) ==
  With(s0, LAMBDA s :
  With(Geometry(s), LAMBDA g :
  With([s EXCEPT !.renders = @ + 1,
                 !.seen = Append(@, s.objs)], LAMBDA s1 :
  With(EllipsePositions(s1), LAMBDA ell :
  With(ApplyZIndex(s1, ell), LAMBDA s2 : RenderFrom(s2, ell, g, 1))))))

render(s0) ==
  With(s0, LAMBDA s :
  With(Geometry(s), LAMBDA g :
  With([s EXCEPT !.ellipseOrbit.centerX = g.vcx,
                 !.ellipseOrbit.centerY = g.vcy,
                 !.renders = @ + 1,
                 !.seen = Append(@, s.objs)], LAMBDA s1 :
  With(EllipsePositions(s1), LAMBDA ell :
  With(ApplyZIndex(s1, ell), LAMBDA s2 : RenderFrom(s2, ell, g, 1))))))

\* ------------------------------------------------------------ compound operations
\* a playing gsap timeline built by splitDot or mergeDots.  r1, r2 are the
\* objects it tweens (split: source, newDot; merge: d1, d2); outlived records
\* that a cleanup ran while it was playing (observation only)
NewSplit(source, newDot, isHorizontal, separationDistance, stretchAmount, ox, oy) ==
  [kind |-> "split", pc |-> 0, r1 |-> source, r2 |-> newDot,
   survivor |-> 0, removed |-> 0, removeId |-> NullId,
   isHorizontal |-> isHorizontal, separationDistance |-> separationDistance,
   stretchAmount |-> stretchAmount, x |-> ox, y |-> oy, outlived |-> FALSE]

NewMerge(d1, d2, survivor, removed, removeId, targetX, targetY) ==
  [kind |-> "merge", pc |-> 0, r1 |-> d1, r2 |-> d2,
   survivor |-> survivor, removed |-> removed, removeId |-> removeId,
   isHorizontal |-> TRUE, separationDistance |-> 0,
   stretchAmount |-> 0, x |-> targetX, y |-> targetY, outlived |-> FALSE]

\* a variant that creates the new dot before it looks for the source
splitDotCreatingFirst(s, sourceId, newId, isHorizontal, separationDistance, stretchAmount) ==
  LET sref == Get(s, sourceId) IN
  IF sref = 0 THEN createDot(s, newId, [opacity |-> 0])
  ELSE LET source == s.objs[sref] IN
       With(createDot(s, newId,
                   [baseXPercent |-> source.baseXPercent,
                    baseYPercent |-> source.baseYPercent,
                    offsetX |-> source.offsetX,
                    offsetY |-> source.offsetY,
                    baseSize |-> source.baseSize,
                    scale |-> source.scale,
                    scaleX |-> F,
                    scaleY |-> F,
                    color |-> source.color,
                    opacity |-> 0]), LAMBDA s1 :
         [s1 EXCEPT !.anims = Append(@,
             NewSplit(sref, Len(s1.objs), isHorizontal, separationDistance,
                      stretchAmount, source.offsetX, source.offsetY))])

\* splitDot(sourceId, newId, options); (sourceId absent: returns null)
splitDot(s, sourceId, newId, isHorizontal, separationDistance, stretchAmount) ==
  LET sref == Get(s, sourceId) IN
  IF sref = 0 THEN s
  ELSE LET source == s.objs[sref] IN
       With(createDot(s, newId,
                   [baseXPercent |-> source.baseXPercent,
                    baseYPercent |-> source.baseYPercent,
                    offsetX |-> source.offsetX,
                    offsetY |-> source.offsetY,
                    baseSize |-> source.baseSize,
                    scale |-> source.scale,
                    scaleX |-> F,
                    scaleY |-> F,
                    color |-> source.color,
                    opacity |-> 0]), LAMBDA s1 :
         [s1 EXCEPT !.anims = Append(@,
             NewSplit(sref, Len(s1.objs), isHorizontal, separationDistance,
                      stretchAmount, source.offsetX, source.offsetY))])

\* createSatellite(parentId, satelliteId, options); (parentId absent: returns null)
createSatellite(s, parentId, satelliteId, options) ==
  LET pref == Get(s, parentId) IN
  IF pref = 0 THEN s
  ELSE LET parent == s.objs[pref] IN
       createDot(s, satelliteId,
         [parentId |-> parentId,
          baseSize |-> Opt(options, "size", Mul(parent.baseSize, 300)),
          color |-> Opt(options, "color", parent.color),
          orbitAngle |-> Opt(options, "startAngle", 0),
          satelliteOrbitRadius |-> Opt(options, "orbitRadius", 30 * F),
          satelliteOrbitSpeed |-> Opt(options, "orbitSpeed", 0)])

\* mergeDots(dot1Id, dot2Id, {resultId, mergePoint}); (an id absent: returns null)
mergeDots(s, dot1Id, dot2Id, resultId, mergePoint) ==
  LET d1 == Get(s, dot1Id)
      d2 == Get(s, dot2Id)
  IN IF d1 = 0 \/ d2 = 0 THEN s
     ELSE LET o1 == s.objs[d1]
              o2 == s.objs[d2]
              targetX == IF mergePoint = "dot1" THEN o1.offsetX
                         ELSE IF mergePoint = "dot2" THEN o2.offsetX
                         ELSE (o1.offsetX + o2.offsetX) \div 2
              targetY == IF mergePoint = "dot1" THEN o1.offsetY
                         ELSE IF mergePoint = "dot2" THEN o2.offsetY
                         ELSE (o1.offsetY + o2.offsetY) \div 2
              survivor == IF resultId = dot1Id THEN d1 ELSE d2
              removed == IF resultId = dot1Id THEN d2 ELSE d1
              removeId == IF resultId = dot1Id THEN dot2Id ELSE dot1Id
          IN [s EXCEPT !.anims = Append(@,
                NewMerge(d1, d2, survivor, removed, removeId, targetX, targetY))]

\* ------------------------------------------------------------ timelines playing
\* a tween part-way: the eased value between the current and the end value
Half(a, b) == a + (b - a) \div 2

\* the split timeline's children, in the order gsap renders them in one tick:
\*   tween A  [0, 0.3]     source stretches                 onUpdate: render
\*   tween B  [0.25, 0.75] source moves, back to a circle   onUpdate: render
\*   tween C  [0.25, 0.75] newDot moves, back to a circle   onUpdate: render
\*   callback  0.3         newDot takes source's shape, opacity 1, render
\* (">-0.05" is 0.05 before the end of the callback at 0.3; "<" is B's start)
SplitStretch(s, a, final) ==
  LET tx == IF a.isHorizontal THEN a.stretchAmount ELSE F
      ty == IF a.isHorizontal THEN F ELSE a.stretchAmount
      o == s.objs[a.r1]
  IN render([s EXCEPT
       !.objs[a.r1].scaleX = IF final THEN tx ELSE Half(o.scaleX, tx),
       !.objs[a.r1].scaleY = IF final THEN ty ELSE Half(o.scaleY, ty)])

\* a variant whose separation tweens move the dot but leave its shape alone
SplitMoveKeepingShape(s, a, ref, sign, final) ==
  LET tx == a.x + (IF a.isHorizontal THEN sign * (a.separationDistance \div 2) ELSE 0)
      ty == a.y + (IF a.isHorizontal THEN 0 ELSE sign * (a.separationDistance \div 2))
      o == s.objs[ref]
  IN render([s EXCEPT
       !.objs[ref].offsetX = IF final THEN tx ELSE Half(o.offsetX, tx),
       !.objs[ref].offsetY = IF final THEN ty ELSE Half(o.offsetY, ty)])

SplitMove(s, a, ref, sign, final) ==
  LET tx == a.x + (IF a.isHorizontal THEN sign * (a.separationDistance \div 2) ELSE 0)
      ty == a.y + (IF a.isHorizontal THEN 0 ELSE sign * (a.separationDistance \div 2))
      o == s.objs[ref]
  IN render([s EXCEPT
       !.objs[ref].offsetX = IF final THEN tx ELSE Half(o.offsetX, tx),
       !.objs[ref].offsetY = IF final THEN ty ELSE Half(o.offsetY, ty),
       !.objs[ref].scaleX = IF final THEN F ELSE Half(o.scaleX, F),
       !.objs[ref].scaleY = IF final THEN F ELSE Half(o.scaleY, F)])

SplitReveal(s, a) ==
  render([s EXCEPT !.objs[a.r2].scaleX = s.objs[a.r1].scaleX,
                   !.objs[a.r2].scaleY = s.objs[a.r1].scaleY,
                   !.objs[a.r2].opacity = F])

\* one tick of a split timeline: to time 0.2, 0.28, 0.3, 0.75
SplitTick(s, a) ==
  IF a.pc = 0 THEN SplitStretch(s, a, FALSE)
  ELSE IF a.pc = 1
  THEN With(SplitStretch(s, a, FALSE), LAMBDA s1 :
       With(SplitMove(s1, a, a.r1, -1, FALSE), LAMBDA s2 :
         SplitMove(s2, a, a.r2, 1, FALSE)))
  ELSE IF a.pc = 2
  THEN With(SplitStretch(s, a, TRUE), LAMBDA s1 :
       With(SplitMove(s1, a, a.r1, -1, FALSE), LAMBDA s2 :
       With(SplitMove(s2, a, a.r2, 1, FALSE), LAMBDA s3 :
         SplitReveal(s3, a))))
  ELSE With(SplitMove(s, a, a.r1, -1, TRUE), LAMBDA s1 :
         SplitMove(s1, a, a.r2, 1, TRUE))

\* the merge timeline's children:
\*   tween    [0, 0.4]    d1 and d2 move to the target     onUpdate: render
\*   callback  0.4        removed.opacity = 0, render
\*   tween    [0.4, 0.5]  survivor stretches               onUpdate: render
\*   tween    [0.5, 0.9]  survivor back to a circle        onUpdate: render
\*   callback  0.9        removeDot
MergeMove(s, a, final) ==
  LET s1 == [s EXCEPT
               !.objs[a.r1].offsetX = IF final THEN a.x ELSE Half(@, a.x),
               !.objs[a.r1].offsetY = IF final THEN a.y ELSE Half(@, a.y)]
  IN render([s1 EXCEPT
               !.objs[a.r2].offsetX = IF final THEN a.x ELSE Half(@, a.x),
               !.objs[a.r2].offsetY = IF final THEN a.y ELSE Half(@, a.y)])

\* a variant whose callback at 0.4 renders and leaves the opacity alone
MergeHideKeepingOpacity(s, a) == render(s)

MergeHide(s, a) == render([s EXCEPT !.objs[a.removed].opacity = 0])

MergeScale(s, a, sx, sy) ==
  render([s EXCEPT !.objs[a.survivor].scaleX = sx,
                   !.objs[a.survivor].scaleY = sy])

\* one tick of a merge timeline: to time 0.2, 0.4, 0.5, 0.9
MergeTick(s, a) ==
  IF a.pc = 0 THEN MergeMove(s, a, FALSE)
  ELSE IF a.pc = 1 THEN With(MergeMove(s, a, TRUE), LAMBDA s1 : MergeHide(s1, a))
  ELSE IF a.pc = 2 THEN MergeScale(s, a, 1500, 700)
  ELSE With(MergeScale(s, a, F, F), LAMBDA s1 : removeDot(s1, a.removeId))

LastPc == 3

\* gsap's ticker advances timeline k; a finished timeline is dropped
AnimTick(s, k) ==
  With(s.anims[k], LAMBDA a :
  With(IF a.kind = "split" THEN SplitTick(s, a) ELSE MergeTick(s, a), LAMBDA s1 :
    IF a.pc = LastPc
    THEN [s1 EXCEPT !.anims = [i \in 1..(Len(@) - 1) |-> IF i < k THEN @[i] ELSE @[i + 1]]]
    ELSE [s1 EXCEPT !.anims[k].pc = a.pc + 1]))

\* ------------------------------------------------------------ master timeline
\* The scroll-scrubbed master timeline at seven scroll positions: what its tweens
\* have written to dot1, dot2, globalState, ellipseBlend and ellipseOrbit when
\* the timeline's time is 0, 0.015, 0.031, 0.04, 0.13, 0.36 and 0.90.
Keys == {"top", "wiggle", "liftoff", "orbit", "transition", "ellipse", "end"}

Keyframe(k) ==
  IF k = "top"
  THEN [offsetX |-> 0, color1 |-> ColorDark, color2 |-> ColorDark,
        scale1 |-> F, scale2 |-> F, orbitRadius |-> 0, orbitAngle |-> 0,
        blend |-> 0, angle |-> 540, radiusX |-> 0, radiusY |-> 0]
  ELSE IF k = "wiggle"
  THEN [offsetX |-> 30 * F, color1 |-> ColorDark, color2 |-> ColorDark,
        scale1 |-> F, scale2 |-> F, orbitRadius |-> 0, orbitAngle |-> 0,
        blend |-> 0, angle |-> 540, radiusX |-> 0, radiusY |-> 0]
  ELSE IF k = "liftoff"
  THEN [offsetX |-> 0, color1 |-> "rgba(dark..green)", color2 |-> "rgba(dark..orange)",
        scale1 |-> 2920, scale2 |-> 3900, orbitRadius |-> 34 * F, orbitAngle |-> 3,
        blend |-> 0, angle |-> 540, radiusX |-> 0, radiusY |-> 0]
  ELSE IF k = "orbit"
  THEN [offsetX |-> 0, color1 |-> "rgba(dark..green)", color2 |-> "rgba(dark..orange)",
        scale1 |-> 17400, scale2 |-> 25800, orbitRadius |-> 295 * F, orbitAngle |-> 32,
        blend |-> 0, angle |-> 540, radiusX |-> 0, radiusY |-> 0]
  ELSE IF k = "transition"
  THEN [offsetX |-> 0, color1 |-> ColorGreen, color2 |-> ColorOrange,
        scale1 |-> 16900, scale2 |-> 24600, orbitRadius |-> 689 * F, orbitAngle |-> 318,
        blend |-> 500, angle |-> 788, radiusX |-> 199 * F, radiusY |-> 119 * F]
  ELSE IF k = "ellipse"
  THEN [offsetX |-> 0, color1 |-> ColorGreen, color2 |-> ColorOrange,
        scale1 |-> 6 * F, scale2 |-> 8 * F, orbitRadius |-> 0, orbitAngle |-> 540,
        blend |-> F, angle |-> 1926, radiusX |-> 240 * F, radiusY |-> 140 * F]
  ELSE [offsetX |-> 0, color1 |-> ColorGreen, color2 |-> ColorOrange,
        scale1 |-> 6 * F, scale2 |-> 8 * F, orbitRadius |-> 0, orbitAngle |-> 540,
        blend |-> F, angle |-> 4500, radiusX |-> 200 * F, radiusY |-> 110 * F]

\* one update of master timeline m at scroll position k: every tween writes,
\* then the timeline-level onUpdate calls render once
MasterUpdate(s, m, k) ==
  LET f == Keyframe(k) IN
  render([s EXCEPT
    !.objs[m.dot1].offsetX = f.offsetX,
    !.objs[m.dot2].offsetX = f.offsetX,
    !.objs[m.dot1].color = f.color1,
    !.objs[m.dot2].color = f.color2,
    !.objs[m.dot1].scale = f.scale1,
    !.objs[m.dot2].scale = f.scale2,
    !.globalState = [orbitAngle |-> f.orbitAngle, orbitRadius |-> f.orbitRadius],
    !.ellipseBlend = f.blend,
    !.ellipseOrbit.angle = f.angle,
    !.ellipseOrbit.radiusX = f.radiusX,
    !.ellipseOrbit.radiusY = f.radiusY])

RECURSIVE ScrollFrom(_, _, _)
ScrollFrom(s, k, i) ==
  IF i > Len(s.masters) THEN s
  ELSE With(MasterUpdate(s, s.masters[i], k), LAMBDA t : ScrollFrom(t, k, i + 1))

\* ------------------------------------------------------------ cleanup, init
RECURSIVE DetachDynamic(_, _)
DetachDynamic(s, i) ==
  IF i > Len(s.dots) THEN s
  ELSE With(s.dots[i], LAMBDA e :
       With(IF e.id # "dot1" /\ e.id # "dot2"
            THEN [s EXCEPT !.dom[s.objs[e.ref].element].attached = FALSE]
            ELSE s,
            LAMBDA t : DetachDynamic(t, i + 1)))

\* a variant that keeps the entries of dot1 and dot2 in the registry
cleanupDotsAnimationKeepingAnchors(s) ==
  LET s1 == IF s.resizeHandler # 0
            THEN [s EXCEPT !.listeners = @ \ {s.resizeHandler},
                           !.resizeHandler = 0]
            ELSE s
  IN With([s1 EXCEPT !.masters = <<>>], LAMBDA s2 :
     With(DetachDynamic(s2, 1), LAMBDA s3 :
       [s3 EXCEPT !.dots = SelectSeq(@, LAMBDA e : e.id \in {"dot1", "dot2"})]))

cleanupDotsAnimation(s) ==
  LET s1 == IF s.resizeHandler # 0
            THEN [s EXCEPT !.listeners = @ \ {s.resizeHandler},
                           !.resizeHandler = 0]
            ELSE s
  IN \* ScrollTrigger.getAll().forEach(kill): kills the triggers' timelines
     With([s1 EXCEPT !.masters = <<>>], LAMBDA s2 :
     With(DetachDynamic(s2, 1), LAMBDA s3 : [s3 EXCEPT !.dots = <<>>]))

\* document.getElementById(id): an attached element carrying that id, or none
getElementById(s, id) ==
  LET found == {e \in Elements : s.dom[e].attached /\ s.dom[e].domId = id} IN
  IF found = {} THEN {NoElement} ELSE found

\* the lookups at the head of initDotsAnimation
FindPageElements(s) ==
  [s EXCEPT !.container = s.page.hasContainer, !.logo = s.page.hasLogo]

\* initDotsAnimation past its guard: the two dots, the first render, masterTl
\* (its fromTo renders the from-value at once) and the resize handler
StartAnimation(s1, dot1Element, dot2Element) ==
  With(createDot(s1, "dot1",
                 [element |-> dot1Element, baseXPercent |-> -20,
                  baseYPercent |-> -50, orbitAngle |-> 180]), LAMBDA s2 :
  With(createDot(s2, "dot2",
                 [element |-> dot2Element, baseXPercent |-> 100,
                  baseYPercent |-> -50, orbitAngle |-> 0]), LAMBDA s3 :
  With(render(s3), LAMBDA s4 :
    [s4 EXCEPT !.masters = Append(@, [dot1 |-> Len(s2.objs),
                                      dot2 |-> Len(s3.objs)]),
               !.ellipseOrbit.angle = 540,
               !.nHandlers = s4.nHandlers + 1,
               !.resizeHandler = s4.nHandlers + 1,
               !.listeners = @ \cup {s4.nHandlers + 1}])))

\* a variant of the guard that looks at dot1 only
initDotsAnimationDot1Only(s, dot1Element, dot2Element) ==
  IF dot1Element = NoElement THEN FindPageElements(s)
  ELSE StartAnimation(FindPageElements(s), dot1Element, dot2Element)

\* initDotsAnimation(), dot1Element and dot2Element being what the lookups gave
initDotsAnimation(s, dot1Element, dot2Element) ==
  IF dot1Element = NoElement \/ dot2Element = NoElement THEN FindPageElements(s)
  ELSE StartAnimation(FindPageElements(s), dot1Element, dot2Element)

\* the window's resize event: every registered closure runs render()
RECURSIVE RunListeners(_, _)
RunListeners(s, n) ==
  IF n = 0 THEN s ELSE With(render(s), LAMBDA t : RunListeners(t, n - 1))

resize(s, w, h) ==
  RunListeners([s EXCEPT !.viewport = [w |-> w, h |-> h]], Cardinality(s.listeners))

\* ------------------------------------------------------------ legacy variant
\* The older initDotsAnimation keeps its state in a closure: vw and vh are
\* constants taken from the window when it runs, state.centerX/centerY start
\* at the viewport centre, the scroll timeline tweens them to fractions of vw
\* and vh, and a debounced resize listener rescales them.  op, n and shown
\* are observation only: the last step, the number of steps, and the window
\* size at which the centre was last set by init or by the listener.
LegacyLoad ==
  [started |-> FALSE, vw |-> 0, vh |-> 0, centerX |-> 0, centerY |-> 0,
   pending |-> FALSE, op |-> "load", shown |-> [w |-> 0, h |-> 0], n |-> 0]

\* the legacy initDotsAnimation: returns at once unless #dot1, #dot2 and
\* #dots-container exist
legacyInit(l, pg, v) ==
  IF ~(pg.hasDot1 /\ pg.hasDot2 /\ pg.hasContainer) THEN l
  ELSE [l EXCEPT !.started = TRUE, !.vw = v.w, !.vh = v.h,
                 !.centerX = (v.w * F) \div 2, !.centerY = (v.h * F) \div 2,
                 !.shown = v]

\* the scroll timeline at the end of one of its tweens: centre = (fx, fy) of
\* the vw and vh taken at init
legacyScroll(l, fx, fy) ==
  [l EXCEPT !.centerX = l.vw * fx, !.centerY = l.vh * fy]

\* the timer of the resize listener fires: "Update state proportionally"
legacyResized(l, v) ==
  [l EXCEPT !.centerX = (l.centerX \div l.vw) * v.w,
            !.centerY = (l.centerY \div l.vh) * v.h,
            !.pending = FALSE,
            !.shown = v]

\* ------------------------------------------------------------ the machine
\* host pages: which of #dots-container, #logo-svg, #dot1, #dot2 exist
LogoRect == [left |-> 100, top |-> 50, width |-> 200, height |-> 50]

Pages ==
  [hasContainer : BOOLEAN, hasLogo : BOOLEAN, hasDot1 : BOOLEAN, hasDot2 : BOOLEAN,
   logoRect : {LogoRect}]

Viewports == {[w |-> 1000, h |-> 800], [w |-> 1200, h |-> 600]}

NoOptions == <<>>

InitOn(pages) ==
  /\ objs = <<>>
  /\ dots = <<>>
  /\ page \in pages
  /\ dom = [e \in Elements |->
              IF e = 1 THEN [NewElementStyle("dot1") EXCEPT !.attached = page.hasDot1]
              ELSE IF e = 2 THEN [NewElementStyle("dot2") EXCEPT !.attached = page.hasDot2]
              ELSE NewElementStyle("")]
  /\ container = FALSE
  /\ logo = FALSE
  /\ resizeHandler = 0
  /\ listeners = {}
  /\ nHandlers = 0
  /\ globalState = [orbitAngle |-> 0, orbitRadius |-> 0]
  /\ ellipseOrbit = [centerX |-> 0, centerY |-> 0, radiusX |-> 0, radiusY |-> 0,
                     depthScale |-> 400, angle |-> 0]
  /\ ellipseBlend = 0
  /\ masters = <<>>
  /\ anims = <<>>
  /\ viewport = [w |-> 1000, h |-> 800]
  /\ last = [op |-> "load", arg |-> <<>>, renders |-> 0, partial |-> FALSE, n |-> 0]
  /\ legacy = LegacyLoad

\* the model's bounds: objects, closures, timelines, the angles of orbiting
\* satellites, and the number of operations of a run
Bounded(s) ==
  /\ Len(s.objs) <= MaxObjects
  /\ s.nHandlers <= MaxHandlers
  /\ Len(s.anims) <= MaxAnims
  /\ \A r \in 1..Len(s.objs) :
       s.objs[r].satelliteOrbitSpeed # 0 => s.objs[r].orbitAngle <= MaxAngle

\* the operation op, called with arg, takes the program to s0
StepOn(s0, op, arg) ==
  /\ last.n < MaxSteps
  /\ \E s \in {s0} :
       /\ Bounded(s)
       /\ Becomes(s, [op |-> op, arg |-> arg, renders |-> 0, partial |-> FALSE,
                      n |-> last.n + 1])

Step(s0, op) == StepOn(s0, op, <<>>)

InitCall ==
  \E e1 \in getElementById(Cur, "dot1"), e2 \in getElementById(Cur, "dot2") :
    Step(initDotsAnimation(Cur, e1, e2), "init")

\* cleanup, noting on the timelines still playing that they outlive it
Outlived(s) ==
  [s EXCEPT !.anims = [k \in 1..Len(s.anims) |-> [s.anims[k] EXCEPT !.outlived = TRUE]]]

CleanupCall ==
  Step(With(cleanupDotsAnimation(Cur), LAMBDA s : Outlived(s)), "cleanup")

CreateDotCall(ids, optionSet) ==
  \E id \in ids, options \in optionSet :
    StepOn(createDot(Cur, id, options), "createDot", [id |-> id, options |-> options])

RemoveDotCall(ids) ==
  \E id \in ids : StepOn(removeDot(Cur, id), "removeDot", [id |-> id])

RenderCall == Step(render(Cur), "render")

SplitDotCall(pairs, directions) ==
  \E p \in pairs, isHorizontal \in directions :
    StepOn(splitDot(Cur, p[1], p[2], isHorizontal, 50 * F, 2 * F), "splitDot",
           [sourceId |-> p[1], newId |-> p[2]])

CreateSatelliteCall(pairs, optionSet) ==
  \E p \in pairs, options \in optionSet :
    StepOn(createSatellite(Cur, p[1], p[2], options), "createSatellite",
           [parentId |-> p[1], satelliteId |-> p[2]])

MergeDotsCall(pairs, mergePoints) ==
  \E p \in pairs, resultFirst \in BOOLEAN, mergePoint \in mergePoints :
    StepOn(mergeDots(Cur, p[1], p[2], IF resultFirst THEN p[1] ELSE p[2], mergePoint),
           "mergeDots",
           [dot1Id |-> p[1], dot2Id |-> p[2],
            resultId |-> IF resultFirst THEN p[1] ELSE p[2],
            mergePoint |-> mergePoint])

Tick == \E k \in 1..Len(anims) : StepOn(AnimTick(Cur, k), "tick", [k |-> k])

\* gsap's ticker again, not counted as an operation of the run: a timeline
\* plays to its end by itself
Play ==
  \E k \in 1..Len(anims) : \E s \in {AnimTick(Cur, k)} :
    /\ Bounded(s)
    /\ Becomes(s, [op |-> "tick", arg |-> [k |-> k], renders |-> 0,
                   partial |-> FALSE, n |-> last.n])

Scroll(keys) ==
  /\ masters # <<>>
  /\ \E k \in keys : Step(ScrollFrom(Cur, k, 1), "scroll")

Resize(viewports) == \E v \in viewports : Step(resize(Cur, v.w, v.h), "resize")

\* ---- the life cycle: init, cleanup, the registry and the timelines
Init == InitOn({p \in Pages : p.hasLogo})

Next ==
  \/ InitCall
  \/ CleanupCall
  \/ CreateDotCall({"dot1", "a"}, {NoOptions, [element |-> 1]})
  \/ RemoveDotCall({"dot2", "a"})
  \/ RenderCall
  \/ SplitDotCall({<<"dot1", "a">>, <<"a", "a">>}, {TRUE})
  \/ CreateSatelliteCall({<<"dot1", "a">>}, {NoOptions})
  \/ MergeDotsCall({<<"dot1", "dot2">>, <<"dot1", "a">>, <<"a", "a">>}, {"middle"})
  \/ Tick
  \/ Scroll({"ellipse"})
  \/ Resize({[w |-> 1000, h |-> 800]})

Spec == Init /\ [][Next]_vars

\* ---- the compositor: registry contents, scroll positions and viewports
InitRender == InitOn({p \in Pages : p.hasContainer /\ p.hasDot1 /\ p.hasDot2})

RenderOptions ==
  {[baseXPercent |-> -20],
   [baseXPercent |-> 100, baseYPercent |-> -50, offsetX |-> 30 * F, orbitAngle |-> 180],
   [parentId |-> "a", satelliteOrbitRadius |-> 30 * F, satelliteOrbitSpeed |-> 30],
   [parentId |-> ""]}

NextRender ==
  \/ InitCall
  \/ CreateDotCall({"dot1", "a"}, RenderOptions)
  \/ CreateSatelliteCall({<<"dot1", "a">>, <<"a", "dot2">>}, {[orbitSpeed |-> 30]})
  \/ RemoveDotCall({"dot2", "a"})
  \/ RenderCall
  \/ Scroll({"top", "liftoff", "orbit", "transition", "ellipse"})
  \/ Resize(Viewports)

SpecRender == InitRender /\ [][NextRender]_vars

\* ---- the legacy variant: init, scroll, window resizes and the debounce timer
main == <<objs, dots, dom, container, logo, resizeHandler, listeners, nHandlers,
          globalState, ellipseOrbit, ellipseBlend, masters, anims, page, last>>

LegacyStep(l, op) ==
  /\ legacy.n < MaxSteps
  /\ legacy' = [l EXCEPT !.op = op, !.n = legacy.n + 1]
  /\ UNCHANGED main

LegacyInitCall ==
  /\ ~legacy.started
  /\ LegacyStep(legacyInit(legacy, page, viewport), "init")
  /\ UNCHANGED viewport

LegacyScroll(fractions) ==
  /\ legacy.started
  /\ \E f \in fractions : LegacyStep(legacyScroll(legacy, f[1], f[2]), "scroll")
  /\ UNCHANGED viewport

\* the window is resized: the listener clears its timer and sets it again
LegacyWindowResize(viewports) ==
  \E v \in viewports :
    /\ v # viewport
    /\ viewport' = v
    /\ LegacyStep([legacy EXCEPT !.pending = legacy.started], "window")

\* the timer fires by itself: not counted as an operation of the run
LegacyTimeout ==
  /\ legacy.pending
  /\ legacy' = [legacyResized(legacy, viewport) EXCEPT !.op = "resized"]
  /\ UNCHANGED main
  /\ UNCHANGED viewport

LegacyViewports == Viewports \cup {[w |-> 800, h |-> 400]}

InitLegacy == InitOn({p \in Pages : p.hasLogo /\ p.hasContainer /\ p.hasDot1})

NextLegacy ==
  \/ LegacyInitCall
  \/ LegacyScroll({<<150, 1200>>, <<500, 500>>})
  \/ LegacyWindowResize(LegacyViewports)
  \/ LegacyTimeout

SpecLegacy == InitLegacy /\ [][NextLegacy]_vars

\* ---- split and merge timelines played to their end, one at a time
InitTimelines ==
  InitOn({p \in Pages : p.hasContainer /\ p.hasLogo /\ p.hasDot1 /\ p.hasDot2})

NextTimelines ==
  \/ InitCall
  \/ CreateDotCall({"a"}, {NoOptions})
  \/ (anims = <<>> /\ SplitDotCall({<<"dot1", "a">>, <<"a", "a">>}, BOOLEAN))
  \/ (anims = <<>> /\ MergeDotsCall({<<"dot1", "dot2">>, <<"dot1", "a">>, <<"a", "a">>},
                                     {"middle", "dot1"}))
  \/ Play

SpecTimelines == InitTimelines /\ [][NextTimelines]_vars

\* ------------------------------------------------------------ teardown
\* C1: whenever cleanupDotsAnimation has just returned, no synthesized dot
\* element is attached to the page and no closure that initDotsAnimation
\* registered listens for resize.
C1_CleanupLeavesNothing ==
  last.op = "cleanup" =>
    /\ \A e \in Elements : e > NumAnchors => ~dom[e].attached
    /\ listeners = {}

\* C2: a call of cleanupDotsAnimation detaches neither page element #dot1 nor
\* #dot2, whatever the registry holds.
C2_CleanupKeepsAnchors ==
  [][(/\ last'.op = "cleanup"
      /\ Has(Cur, "dot1") /\ objs[Get(Cur, "dot1")].element = AnchorElement("dot1")
      /\ Has(Cur, "dot2") /\ objs[Get(Cur, "dot2")].element = AnchorElement("dot2")) =>
       \A e \in 1..NumAnchors : dom[e].attached => dom'[e].attached]_vars

\* document.getElementById finds no #dot1 or no #dot2
MissingAnchor ==
  \/ getElementById(Cur, "dot1") = {NoElement}
  \/ getElementById(Cur, "dot2") = {NoElement}

\* C3: initDotsAnimation called while #dot1 or #dot2 is missing registers no
\* dot, renders nothing, creates no master timeline, adds no resize listener
\* and leaves resizeHandler as it was.
C3_InitDisabled ==
  [][(last'.op = "init" /\ MissingAnchor) =>
       /\ objs' = objs
       /\ dots' = dots
       /\ dom' = dom
       /\ last'.renders = 0
       /\ masters' = masters
       /\ anims' = anims
       /\ listeners' = listeners
       /\ nHandlers' = nHandlers
       /\ resizeHandler' = resizeHandler]_vars

\* a disabled init has just returned, resizeHandler still null
C3_Witness ==
  /\ last.op = "init"
  /\ MissingAnchor
  /\ resizeHandler = 0
  /\ dots = <<>>

\* C4: a timeline that was playing when cleanupDotsAnimation ran changes no
\* dot, does not change the registry and does not invoke render afterwards.
C4_CleanupHaltsTimelines ==
  [][(last'.op = "tick" /\ \A k \in 1..Len(anims) : anims[k].outlived) =>
       /\ objs' = objs
       /\ dots' = dots
       /\ last'.renders = 0]_vars

\* ------------------------------------------------------------ the compositor
\* operations in which render is the only writer of what it writes
RenderOps == {"render", "resize", "scroll"}

\* a step of such an operation in which render ran exactly once
OneRender == last'.op \in RenderOps /\ last'.renders = 1

IsRegistered(id) == \E i \in 1..Len(dots) : dots[i].id = id

\* render gives the dot an ellipse position: blend above 0, both primary dots
\* registered, and the dot is one of them
OnEllipse(id) ==
  /\ ellipseBlend' > 0
  /\ id \in {"dot1", "dot2"}
  /\ IsRegistered("dot1") /\ IsRegistered("dot2")

\* the point an element is centred on after the step
CentreX(e) == dom'[e].tx + dom'[e].width \div 2

CentreY(e) == dom'[e].ty + dom'[e].height \div 2

\* C5 as stated: every registered dot with a parent id and a nonzero speed
\* advances by speed at each of the N renders of an operation.
C5_EveryChildAdvances ==
  [][last'.op \in RenderOps =>
       \A i \in 1..Len(dots) :
         LET r == dots[i].ref
             d == objs[r]
         IN (Truthy(d.parentId) /\ d.satelliteOrbitSpeed # 0) =>
              objs'[r].orbitAngle = d.orbitAngle + last'.renders * d.satelliteOrbitSpeed]_vars

\* C5 amended: over the N renders of an operation a registered dot advances
\* its orbitAngle by exactly N * satelliteOrbitSpeed when its parentId names a
\* registered dot and render gives it no ellipse position; any other dot keeps
\* its orbitAngle.
C5_SatelliteAdvances ==
  [][last'.op \in RenderOps =>
       \A i \in 1..Len(dots) :
         LET r == dots[i].ref
             d == objs[r]
             orbits == /\ Truthy(d.parentId)
                       /\ IsRegistered(d.parentId)
                       /\ ~OnEllipse(d.id)
         IN objs'[r].orbitAngle =
              d.orbitAngle + (IF orbits THEN last'.renders * d.satelliteOrbitSpeed ELSE 0)]_vars

\* a satellite of a registered parent that two renders have advanced
C5_Witness ==
  /\ last.op \in RenderOps
  /\ \E i \in 1..Len(dots) :
       LET d == objs[dots[i].ref] IN
         /\ Truthy(d.parentId) /\ IsRegistered(d.parentId)
         /\ d.satelliteOrbitSpeed # 0
         /\ d.orbitAngle = 2 * d.satelliteOrbitSpeed
         /\ ~(ellipseBlend > 0 /\ d.id \in {"dot1", "dot2"})

\* the parent id of a registered dot, null at the end of a chain
ParentId(id) ==
  IF IsRegistered(id) /\ Truthy(objs[Get(Cur, id)].parentId)
  THEN objs[Get(Cur, id)].parentId
  ELSE NullId

\* the parent chain of the dot ends (three ids: within three links)
AcyclicParents(id) ==
  NullId \in {ParentId(id), ParentId(ParentId(id)), ParentId(ParentId(ParentId(id)))}

\* C6: in a render call a dot whose parent is registered (parent chain
\* acyclic) is centred on the point its parent is rendered at in that call,
\* plus satelliteOrbitRadius * (cos, sin) of its own orbit angle.
C6_SatelliteFollowsParent ==
  [][OneRender =>
       \A i \in 1..Len(dots) :
         LET r == dots[i].ref
             d == objs'[r]
             angle == objs[r].orbitAngle
         IN (Truthy(d.parentId) /\ IsRegistered(d.parentId) /\ AcyclicParents(d.id)) =>
              LET p == objs'[Get(Cur, d.parentId)] IN
                /\ CentreX(d.element) =
                     CentreX(p.element) + Mul(Cos(angle), d.satelliteOrbitRadius)
                /\ CentreY(d.element) =
                     CentreY(p.element) + Mul(Sin(angle), d.satelliteOrbitRadius)]_vars

\* C7 as stated: a registered dot whose parentId names no registered dot is
\* centred on the viewport centre by every render.
C7_OrphanAtCentre ==
  [][OneRender =>
       \A i \in 1..Len(dots) :
         LET d == objs'[dots[i].ref] IN
           (Truthy(d.parentId) /\ ~IsRegistered(d.parentId)) =>
             /\ CentreX(d.element) = (viewport'.w * F) \div 2
             /\ CentreY(d.element) = (viewport'.h * F) \div 2]_vars

\* C7 amended: a registered dot whose non-empty parentId names no registered
\* dot is centred on the viewport centre by every render that gives it no
\* ellipse position.
C7_OrphanOffEllipseAtCentre ==
  [][OneRender =>
       \A i \in 1..Len(dots) :
         LET d == objs'[dots[i].ref] IN
           (Truthy(d.parentId) /\ ~IsRegistered(d.parentId) /\ ~OnEllipse(d.id)) =>
             /\ CentreX(d.element) = (viewport'.w * F) \div 2
             /\ CentreY(d.element) = (viewport'.h * F) \div 2]_vars

\* a render has centred a dot with a missing parent on the viewport centre
\* while the logo, where a parentless dot would sit, is elsewhere
C7_Witness ==
  /\ last.op \in RenderOps /\ last.renders = 1
  /\ logo
  /\ \E i \in 1..Len(dots) :
       LET d == objs[dots[i].ref] IN
         /\ Truthy(d.parentId) /\ ~IsRegistered(d.parentId)
         /\ ~(ellipseBlend > 0 /\ d.id \in {"dot1", "dot2"})
         /\ dom[d.element].tx + dom[d.element].width \div 2 = (viewport.w * F) \div 2
         /\ dom[d.element].ty + dom[d.element].height \div 2 = (viewport.h * F) \div 2

\* C8: with no logo element, render places a parentless dot (global orbit
\* radius 0, no ellipse position) against a reference rectangle 400 wide and
\* 100 high centred in the viewport; with a 1000x800 viewport a dot with
\* baseXPercent -0.02, baseYPercent 0 and zero offsets is at x = 492, y = 400.
C8_DefaultRectangle ==
  [][(OneRender /\ ~logo') =>
       \A i \in 1..Len(dots) :
         LET d == objs'[dots[i].ref] IN
           (~Truthy(d.parentId) /\ ~OnEllipse(d.id) /\ globalState'.orbitRadius = 0) =>
             /\ CentreX(d.element) =
                  (viewport'.w * F) \div 2 + (400 * d.baseXPercent) + d.offsetX
             /\ CentreY(d.element) =
                  (viewport'.h * F) \div 2 + (100 * d.baseYPercent) + d.offsetY
             /\ (/\ viewport' = [w |-> 1000, h |-> 800]
                 /\ d.baseXPercent = -20 /\ d.baseYPercent = 0
                 /\ d.offsetX = 0 /\ d.offsetY = 0) =>
                  (CentreX(d.element) = 492 * F /\ CentreY(d.element) = 400 * F)]_vars

\* the example of C8 has been rendered: no logo, 1000x800, radius 0, blend 0
C8_Witness ==
  /\ last.op = "render"
  /\ ~page.hasLogo /\ ~logo
  /\ viewport = [w |-> 1000, h |-> 800]
  /\ globalState.orbitRadius = 0
  /\ ellipseBlend = 0
  /\ \E i \in 1..Len(dots) :
       LET d == objs[dots[i].ref] IN
         /\ d.parentId = NullId
         /\ d.baseXPercent = -20 /\ d.baseYPercent = 0
         /\ d.offsetX = 0 /\ d.offsetY = 0
         /\ dom[d.element].written
         /\ dom[d.element].tx + dom[d.element].width \div 2 = 492 * F

\* the reference rectangle after the step: centre and size
RefRect ==
  IF logo'
  THEN [cx |-> page.logoRect.left * F + (page.logoRect.width * F) \div 2,
        cy |-> page.logoRect.top * F + (page.logoRect.height * F) \div 2,
        w |-> page.logoRect.width * F, h |-> page.logoRect.height * F]
  ELSE [cx |-> (viewport'.w * F) \div 2, cy |-> (viewport'.h * F) \div 2,
        w |-> 400 * F, h |-> 100 * F]

\* base = rectangle centre + rectangle size * base fraction + pixel offset
BasePoint(d) ==
  [x |-> RefRect.cx + (RefRect.w * d.baseXPercent) \div F + d.offsetX,
   y |-> RefRect.cy + (RefRect.h * d.baseYPercent) \div F + d.offsetY]

\* orbit = viewport centre + globalRadius * (cos, sin) of the combined angle
OrbitPoint(d) ==
  LET drift == IF d.orbitAngle > 0
               THEN (Sin((globalState'.orbitAngle * 8) \div 100) * 20) \div F
               ELSE 0
      theta == globalState'.orbitAngle + d.orbitAngle + drift
  IN [x |-> (viewport'.w * F) \div 2 + (globalState'.orbitRadius * Cos(theta)) \div F,
      y |-> (viewport'.h * F) \div 2 + (globalState'.orbitRadius * Sin(theta)) \div F]

\* C9: at ellipse blend 0 render centres a parentless dot on
\* base + (orbit - base) * min(globalRadius / 100, 1); so on base when the
\* global radius is 0 and on orbit when it is 100 or more.
C9_BlendFormula ==
  [][(OneRender /\ ellipseBlend' = 0) =>
       \A i \in 1..Len(dots) :
         LET d == objs'[dots[i].ref]
             e == d.element
             base == BasePoint(d)
             orbit == OrbitPoint(d)
             R == globalState'.orbitRadius
             k == IF R \div 100 < F THEN R \div 100 ELSE F
         IN ~Truthy(d.parentId) =>
              /\ CentreX(e) = base.x + ((orbit.x - base.x) * k) \div F
              /\ CentreY(e) = base.y + ((orbit.y - base.y) * k) \div F
              /\ R = 0 => (CentreX(e) = base.x /\ CentreY(e) = base.y)
              /\ R >= 100 * F => (CentreX(e) = orbit.x /\ CentreY(e) = orbit.y)]_vars

\* a parentless dot has been rendered at blend 0 with a global radius of 100
\* or more, away from its base
C9_Witness ==
  /\ last.op \in RenderOps /\ last.renders = 1
  /\ ellipseBlend = 0
  /\ globalState.orbitRadius >= 100 * F
  /\ \E i \in 1..Len(dots) :
       LET d == objs[dots[i].ref] IN
         /\ d.parentId = NullId
         /\ d.offsetX # 0
         /\ dom[d.element].written

\* the output of the compositor that knows the global orbit only: render with
\* the ellipse switched off, on elements whose z-index nothing has set
GlobalOrbitOnly(s) ==
  render([s EXCEPT !.ellipseBlend = 0,
                   !.dom = [e \in Elements |-> [s.dom[e] EXCEPT !.zIndex = ""]]])

\* C10: at ellipse blend 0 a render call leaves on every registered dot's
\* element exactly the translation, size, opacity, fill and stacking order
\* that the global-orbit-only compositor leaves, whatever the blend was before.
C10_BlendZeroIsGlobalOnly ==
  [][(last'.op = "render" /\ ellipseBlend' = 0) =>
       \A i \in 1..Len(dots) :
         LET e == objs[dots[i].ref].element IN
           dom'[e] = GlobalOrbitOnly(Cur).dom[e]]_vars

\* ------------------------------------------------------------ the ellipse
\* the angle of a primary dot on the ellipse after the step: dot2 runs half a
\* turn and a slow phase drift ahead of dot1
EllipseAngle(id) ==
  IF id = "dot1" THEN ellipseOrbit'.angle
  ELSE ellipseOrbit'.angle + 180 + (Sin((ellipseOrbit'.angle * 5) \div 100) * 25) \div F

\* dot2's radius variation, 1 for dot1
RadiusVariation(id) ==
  IF id = "dot1" THEN F
  ELSE F + (Sin((ellipseOrbit'.angle * 3) \div 100) * 150) \div F

\* ellipse centre + (radiusX, radiusY) * (cos, sin) of the dot's ellipse angle
PureEllipse(id) ==
  LET e == ellipseOrbit'
      a == EllipseAngle(id)
  IN [x |-> e.centerX + (((Cos(a) * e.radiusX) \div F) * RadiusVariation(id)) \div F,
      y |-> e.centerY + (((Sin(a) * e.radiusY) \div F) * RadiusVariation(id)) \div F]

\* C11: at ellipse blend 1 with dot1 and dot2 registered, render centres each
\* of them on its pure ellipse position, whatever the global orbit, its base
\* position and its offsets are, and sizes it by its depth factor
\* 1 + sin(angle) * depthScale.
C11_PureEllipse ==
  [][(OneRender /\ ellipseBlend' = F /\ IsRegistered("dot1") /\ IsRegistered("dot2")) =>
       \A i \in 1..Len(dots) :
         LET d == objs'[dots[i].ref]
             depthFactor == F + (Sin(EllipseAngle(d.id)) * ellipseOrbit'.depthScale) \div F
             size == (((d.baseSize * d.scale) \div F) * depthFactor) \div F
         IN d.id \in {"dot1", "dot2"} =>
              /\ CentreX(d.element) = PureEllipse(d.id).x
              /\ CentreY(d.element) = PureEllipse(d.id).y
              /\ dom'[d.element].width = (size * d.scaleX) \div F
              /\ dom'[d.element].height = (size * d.scaleY) \div F]_vars

\* at blend 1 a primary dot with a nonzero offset and a base position away
\* from the logo's centre has been rendered on the ellipse
C11_Witness ==
  /\ last.op = "scroll" /\ last.renders = 1
  /\ ellipseBlend = F
  /\ IsRegistered("dot1") /\ IsRegistered("dot2")
  /\ \E i \in 1..Len(dots) :
       LET d == objs[dots[i].ref] IN
         /\ d.id \in {"dot1", "dot2"}
         /\ d.offsetX # 0 /\ d.baseXPercent # 0
         /\ dom[d.element].written

\* the width render gives a dot when its depth multiplier is m
WidthAtDepth(d, m) == (((((d.baseSize * d.scale) \div F) * m) \div F) * d.scaleX) \div F

HeightAtDepth(d, m) == (((((d.baseSize * d.scale) \div F) * m) \div F) * d.scaleY) \div F

\* C12: in every render call the depth multiplier that sizes a dot lies in
\* [1 - depthScale * blend, 1 + depthScale * blend] (so does the size it
\* gives), and is exactly 1 for a dot that gets no ellipse position.
C12_DepthBounded ==
  [][OneRender =>
       \A i \in 1..Len(dots) :
         LET d == objs'[dots[i].ref]
             e == d.element
             span == (ellipseOrbit'.depthScale * ellipseBlend') \div F
         IN /\ ellipseBlend' >= 0 /\ ellipseBlend' <= F
            /\ WidthAtDepth(d, F - span) <= dom'[e].width
            /\ dom'[e].width <= WidthAtDepth(d, F + span)
            /\ HeightAtDepth(d, F - span) <= dom'[e].height
            /\ dom'[e].height <= HeightAtDepth(d, F + span)
            /\ ~OnEllipse(d.id) =>
                 /\ dom'[e].width = WidthAtDepth(d, F)
                 /\ dom'[e].height = HeightAtDepth(d, F)]_vars

\* mid-transition (blend 0.5) a primary dot has been sized by a depth
\* multiplier other than 1 while a dot off the ellipse is registered
C12_Witness ==
  /\ last.op = "scroll" /\ last.renders = 1
  /\ ellipseBlend > 0 /\ ellipseBlend < F
  /\ IsRegistered("dot1") /\ IsRegistered("dot2") /\ IsRegistered("a")
  /\ \E i \in 1..Len(dots) :
       LET d == objs[dots[i].ref] IN
         /\ d.id \in {"dot1", "dot2"}
         /\ dom[d.element].width # (((d.baseSize * d.scale) \div F) * d.scaleX) \div F

\* ------------------------------------------------------------ split and merge
\* C13: while a split timeline plays, the new dot is revealed (opacity 1)
\* before the offsets of the source and of the new dot differ: as long as the
\* new dot's opacity is 0 the two have the same offsets.
C13_RevealBeforeDiverge ==
  \A k \in 1..Len(anims) :
    LET a == anims[k] IN
      (a.kind = "split" /\ ~a.outlived /\ objs[a.r2].opacity = 0) =>
        /\ objs[a.r1].offsetX = objs[a.r2].offsetX
        /\ objs[a.r1].offsetY = objs[a.r2].offsetY

\* C14: when a split timeline completes, the source and the new dot both
\* have scaleX = scaleY = 1, and the new dot's offset is the source's plus
\* separationDistance along the split direction, equal on the other axis.
C14_SplitCompletes ==
  [][last'.op = "tick" =>
       LET a == anims[last'.arg.k] IN
         (a.kind = "split" /\ a.pc = LastPc) =>
           /\ objs'[a.r1].scaleX = F /\ objs'[a.r1].scaleY = F
           /\ objs'[a.r2].scaleX = F /\ objs'[a.r2].scaleY = F
           /\ IF a.isHorizontal
              THEN /\ objs'[a.r2].offsetX - objs'[a.r1].offsetX = a.separationDistance
                   /\ objs'[a.r2].offsetY = objs'[a.r1].offsetY
              ELSE /\ objs'[a.r2].offsetY - objs'[a.r1].offsetY = a.separationDistance
                   /\ objs'[a.r2].offsetX = objs'[a.r1].offsetX]_vars

\* a vertical split has completed: no timeline is left, the two dots are
\* circles 50 apart and the new one is visible
C14_Witness ==
  /\ last.op = "tick"
  /\ anims = <<>>
  /\ \E i, j \in 1..Len(dots) :
       LET d1 == objs[dots[i].ref]
           d2 == objs[dots[j].ref]
       IN /\ d2.offsetY - d1.offsetY = 50 * F
          /\ d2.offsetX = d1.offsetX
          /\ d1.scaleX = F /\ d1.scaleY = F /\ d2.scaleX = F /\ d2.scaleY = F
          /\ d2.opacity = F

\* ------------------------------------------------------------ the registry
\* the place of id in the registry's order, 0 when it is not registered
PlaceOf(id) ==
  IF IsRegistered(id) THEN CHOOSE i \in 1..Len(dots) : dots[i].id = id ELSE 0

\* C15: removeDot(id) on a registered id detaches that dot's element and
\* deletes its entry, every other entry, every dot's attributes and every
\* other element staying as they were; on an id not registered it changes
\* nothing.
C15_RemoveDot ==
  [][last'.op = "removeDot" =>
       LET id == last'.arg.id
           at == PlaceOf(id)
       IN /\ objs' = objs
          /\ IF at = 0
             THEN dots' = dots /\ dom' = dom
             ELSE /\ Len(dots') = Len(dots) - 1
                  /\ \A i \in 1..Len(dots') :
                       dots'[i] = IF i < at THEN dots[i] ELSE dots[i + 1]
                  /\ ~dom'[objs[dots[at].ref].element].attached
                  /\ \A e \in Elements :
                       e # objs[dots[at].ref].element => dom'[e] = dom[e]]_vars

\* removeDot has just removed a registered dot whose element was in the page,
\* other dots staying registered
C15_Witness ==
  /\ last.op = "removeDot"
  /\ ~IsRegistered(last.arg.id)
  /\ dots # <<>>
  /\ \E r \in 1..Len(objs) :
       /\ objs[r].id = last.arg.id
       /\ dom[objs[r].element].written
       /\ ~dom[objs[r].element].attached

\* the documented defaults of a dot's attributes
Defaults ==
  [baseXPercent |-> 0, baseYPercent |-> 0, offsetX |-> 0, offsetY |-> 0,
   baseSize |-> 24 * F, scale |-> F, scaleX |-> F, scaleY |-> F,
   orbitAngle |-> 0, orbitRadius |-> 0, color |-> ColorDark, opacity |-> F,
   parentId |-> NullId, satelliteOrbitRadius |-> 0, satelliteOrbitSpeed |-> 0]

\* C16: after createDot(id, options) the registry has under id the state just
\* made, each attribute being the supplied option, or its default when none
\* was supplied, the states made earlier staying as they were; after
\* removeDot(id) the registry has nothing under id.
C16_CreateThenGet ==
  [][/\ last'.op = "createDot" =>
          LET id == last'.arg.id
              options == last'.arg.options
              ref == Len(objs) + 1
          IN /\ Len(objs') = ref
             /\ \A r \in 1..Len(objs) : objs'[r] = objs[r]
             /\ \E i \in 1..Len(dots') : dots'[i] = [id |-> id, ref |-> ref]
             /\ \A i, j \in 1..Len(dots') : dots'[i].id = dots'[j].id => i = j
             /\ objs'[ref].id = id
             /\ \A f \in DOMAIN Defaults :
                  objs'[ref][f] = IF f \in DOMAIN options THEN options[f] ELSE Defaults[f]
     /\ last'.op = "removeDot" =>
          \A i \in 1..Len(dots') : dots'[i].id # last'.arg.id]_vars

\* createDot has been called with some attributes supplied, one of them an
\* empty parentId, and the others left to their defaults
C16_Witness ==
  /\ last.op = "createDot"
  /\ "parentId" \in DOMAIN last.arg.options
  /\ "baseSize" \notin DOMAIN last.arg.options
  /\ \E i \in 1..Len(dots) :
       /\ dots[i].id = last.arg.id
       /\ objs[dots[i].ref].parentId = ""
       /\ objs[dots[i].ref].baseSize = 24 * F

\* C17: one render call completes for every registry content and leaves on
\* every registered dot's element a transform, the dot's opacity and fill,
\* and the width and height of its size (times its depth on the ellipse).
C17_RenderTotal ==
  [][last'.op = "render" =>
       /\ last'.renders = 1
       /\ \A i \in 1..Len(dots) :
            LET d == objs'[dots[i].ref]
                e == d.element
            IN /\ dom'[e].written
               /\ dom'[e].opacity = d.opacity
               /\ dom'[e].fill = d.color
               /\ ~OnEllipse(d.id) =>
                    /\ dom'[e].width = WidthAtDepth(d, F)
                    /\ dom'[e].height = HeightAtDepth(d, F)]_vars

\* render has run with no logo on a registry holding two dots that are each
\* other's parent
C17_Witness ==
  /\ last.op = "render"
  /\ ~logo
  /\ \E i, j \in 1..Len(dots) :
       LET d == objs[dots[i].ref]
           p == objs[dots[j].ref]
       IN /\ i # j
          /\ d.parentId = p.id /\ p.parentId = d.id
          /\ dom[d.element].written /\ dom[p.element].written

\* ---- stacking

\* the element of the dot registered under id
ElementOf(id) == objs[dots[PlaceOf(id)].ref].element

\* C18: a render with blend above 0.5 and both primary dots registered sets
\* each one's z-index to "2" when the sine of its ellipse angle is positive
\* and to "1" otherwise; a render with blend at most 0.5 changes no z-index.
C18_Stacking ==
  [][OneRender =>
       /\ (ellipseBlend' > 500 /\ IsRegistered("dot1") /\ IsRegistered("dot2")) =>
            \A id \in {"dot1", "dot2"} :
              dom'[ElementOf(id)].zIndex = IF Sin(EllipseAngle(id)) > 0 THEN "2" ELSE "1"
       /\ ellipseBlend' <= 500 =>
            \A e \in Elements : dom'[e].zIndex = dom[e].zIndex]_vars

\* a render at blend above 0.5 has put one primary dot in front of the other
C18_Witness ==
  /\ last.op \in RenderOps /\ last.renders = 1
  /\ ellipseBlend > 500
  /\ IsRegistered("dot1") /\ IsRegistered("dot2")
  /\ {dom[ElementOf("dot1")].zIndex, dom[ElementOf("dot2")].zIndex} = {"1", "2"}

\* ---- ticks

\* C19: in one update tick of the master timeline or of a split or merge
\* timeline, every render call reads the dots as the tick leaves them: none
\* reads them with only some of the tick's writes applied.
C19_ConsistentSnapshot ==
  [][(last'.op = "tick" \/ (last'.op = "scroll" /\ Len(masters) = 1))
       => ~last'.partial]_vars

\* the same for the master timeline alone, which renders once per tick from
\* its timeline-level onUpdate
MasterSnapshot ==
  [][(last'.op = "scroll" /\ Len(masters) = 1)
       => (last'.renders = 1 /\ ~last'.partial)]_vars

\* ---- merge completion

\* C20: the tick that completes a merge timeline, both dots being still the
\* registered ones, deletes exactly one registry entry, the one of the dot not
\* designated by resultId, and leaves the survivor registered with scaleX and
\* scaleY 1, whatever the two ids and resultId.
C20_MergeCompletes ==
  [][last'.op = "tick" =>
       LET a == anims[last'.arg.k] IN
         (/\ a.kind = "merge" /\ a.pc = LastPc
          /\ \E i \in 1..Len(dots) : dots[i].ref = a.r1
          /\ \E i \in 1..Len(dots) : dots[i].ref = a.r2) =>
           /\ Len(dots') = Len(dots) - 1
           /\ \A i \in 1..Len(dots') : dots'[i].id # a.removeId
           /\ \E i \in 1..Len(dots') : dots'[i].ref = a.survivor
           /\ objs'[a.survivor].scaleX = F /\ objs'[a.survivor].scaleY = F]_vars

\* ------------------------------------------------------------ the anchors
\* C21: once initDotsAnimation has started the animation, and no cleanup having
\* run, dot1 and dot2 are registered and their elements are attached, whatever
\* splitDot, createSatellite and mergeDots calls and timeline ticks follow.
C21_AnchorsPermanent ==
  masters # <<>> =>
    \A id \in {"dot1", "dot2"} :
      IsRegistered(id) /\ dom[ElementOf(id)].attached

\* ------------------------------------------------------------ absent ids
\* the call just made names a dot id that was not registered
AbsentId ==
  \/ last'.op = "splitDot" /\ ~IsRegistered(last'.arg.sourceId)
  \/ last'.op = "createSatellite" /\ ~IsRegistered(last'.arg.parentId)
  \/ /\ last'.op = "mergeDots"
     /\ ~(IsRegistered(last'.arg.dot1Id) /\ IsRegistered(last'.arg.dot2Id))

\* C22: splitDot with sourceId absent, createSatellite with parentId absent and
\* mergeDots with dot1Id or dot2Id absent return without a dot or a timeline
\* made: registry, dots, elements and timelines are as before and nothing was
\* rendered.
C22_AbsentIdNoEffect ==
  [][AbsentId =>
       /\ objs' = objs
       /\ dots' = dots
       /\ dom' = dom
       /\ anims' = anims
       /\ last'.renders = 0]_vars

\* mergeDots has just returned for a registered first and an absent second id
C22_Witness ==
  /\ last.op = "mergeDots"
  /\ IsRegistered(last.arg.dot1Id)
  /\ ~IsRegistered(last.arg.dot2Id)
  /\ anims = <<>>

\* ------------------------------------------------------------ merge order
\* the timeline's two dots are still the ones registered under their ids
StillRegistered(a) ==
  /\ \E i \in 1..Len(dots) : dots[i].ref = a.r1
  /\ \E i \in 1..Len(dots) : dots[i].ref = a.r2

\* the merge target of the call just made
MergeTarget(field) ==
  LET o1 == objs[Get(Cur, last'.arg.dot1Id)]
      o2 == objs[Get(Cur, last'.arg.dot2Id)]
  IN IF last'.arg.mergePoint = "dot1" THEN o1[field]
     ELSE IF last'.arg.mergePoint = "dot2" THEN o2[field]
     ELSE (o1[field] + o2[field]) \div 2

\* C23: a merge timeline moves both dots to the target fixed at the call (the
\* midpoint of their offsets, or the named dot's offsets); while they move the
\* other dot keeps its opacity and the survivor its shape; when they have
\* arrived the other dot's opacity is 0; then the survivor is 1.5 by 0.7, then
\* 1 by 1; the registry changes at the last tick only, which deletes the
\* other dot's entry, its opacity being 0 already.
C23_MergeOrder ==
  [][/\ (/\ last'.op = "mergeDots"
         /\ IsRegistered(last'.arg.dot1Id) /\ IsRegistered(last'.arg.dot2Id)) =>
          /\ Len(anims') = Len(anims) + 1
          /\ anims'[Len(anims')].x = MergeTarget("offsetX")
          /\ anims'[Len(anims')].y = MergeTarget("offsetY")
     /\ last'.op = "tick" =>
          LET a == anims[last'.arg.k] IN
            (a.kind = "merge" /\ StillRegistered(a)) =>
              /\ a.pc < LastPc => dots' = dots
              /\ a.pc = 0 =>
                   /\ objs'[a.removed].opacity = objs[a.removed].opacity
                   /\ objs'[a.survivor].scaleX = objs[a.survivor].scaleX
                   /\ objs'[a.survivor].scaleY = objs[a.survivor].scaleY
              /\ a.pc >= 1 =>
                   /\ objs'[a.r1].offsetX = a.x /\ objs'[a.r1].offsetY = a.y
                   /\ objs'[a.r2].offsetX = a.x /\ objs'[a.r2].offsetY = a.y
                   /\ objs'[a.removed].opacity = 0
              /\ a.pc = 1 =>
                   /\ objs'[a.survivor].scaleX = objs[a.survivor].scaleX
                   /\ objs'[a.survivor].scaleY = objs[a.survivor].scaleY
              /\ a.pc = 2 =>
                   /\ objs'[a.survivor].scaleX = 1500
                   /\ objs'[a.survivor].scaleY = 700
              /\ a.pc = LastPc =>
                   /\ objs[a.removed].opacity = 0
                   /\ objs[a.survivor].scaleX = 1500 /\ objs[a.survivor].scaleY = 700
                   /\ objs'[a.survivor].scaleX = F /\ objs'[a.survivor].scaleY = F
                   /\ Get(Cur, a.removeId) = a.removed
                   /\ \A i \in 1..Len(dots') : dots'[i].id # a.removeId]_vars

\* a merge of two different dots has completed: the other dot is hidden, out
\* of the registry and off the page, the survivor is a circle at the same
\* offsets, which are not the origin
C23_Witness ==
  /\ last.op = "tick"
  /\ anims = <<>>
  /\ \E r \in 1..Len(objs) : \E i \in 1..Len(dots) :
       LET gone == objs[r]
           kept == objs[dots[i].ref]
       IN /\ \A j \in 1..Len(dots) : dots[j].ref # r /\ dots[j].id # gone.id
          /\ gone.opacity = 0
          /\ ~dom[gone.element].attached
          /\ kept.offsetX = gone.offsetX /\ kept.offsetY = gone.offsetY
          /\ (kept.offsetX # 0 \/ kept.offsetY # 0)
          /\ kept.scaleX = F /\ kept.scaleY = F /\ kept.opacity = F

\* ------------------------------------------------------------ precedence
\* the point of the base/global-orbit blend for dot d after the step
GlobalPoint(d) ==
  LET base == BasePoint(d)
      orbit == OrbitPoint(d)
      R == globalState'.orbitRadius
      k == IF R \div 100 < F THEN R \div 100 ELSE F
  IN [x |-> base.x + ((orbit.x - base.x) * k) \div F,
      y |-> base.y + ((orbit.y - base.y) * k) \div F]

\* the dot registered under id as the i-th dot's turn in the loop finds it:
\* its orbit angle is already advanced when its own turn came earlier
ParentAt(id, i) ==
  LET r == dots[PlaceOf(id)].ref IN
  [objs'[r] EXCEPT !.orbitAngle = IF PlaceOf(id) < i THEN objs'[r].orbitAngle
                                   ELSE objs[r].orbitAngle]

\* C24: render places each dot by the first model that applies.  A dot with
\* an ellipse position is centred on global + (ellipse - global) * blend and
\* keeps its orbit angle, parent id or not.  Otherwise a dot with a parent id
\* is centred on its parent's global point plus satelliteOrbitRadius *
\* (cos, sin) of its orbit angle, which advances by satelliteOrbitSpeed (on
\* the viewport centre when the parent is missing).  Otherwise it is centred
\* on its own global point.  Every dot without an ellipse position, so every
\* dot other than dot1 and dot2, has depth multiplier 1.
C24_Precedence ==
  [][OneRender =>
       \A i \in 1..Len(dots) :
         LET r == dots[i].ref
             d == objs'[r]
             e == d.element
             before == [d EXCEPT !.orbitAngle = objs[r].orbitAngle]
         IN /\ OnEllipse(d.id) =>
                 /\ d.id \in {"dot1", "dot2"}
                 /\ CentreX(e) = GlobalPoint(d).x
                      + ((PureEllipse(d.id).x - GlobalPoint(d).x) * ellipseBlend') \div F
                 /\ CentreY(e) = GlobalPoint(d).y
                      + ((PureEllipse(d.id).y - GlobalPoint(d).y) * ellipseBlend') \div F
                 /\ d.orbitAngle = before.orbitAngle
            /\ (~OnEllipse(d.id) /\ Truthy(d.parentId) /\ IsRegistered(d.parentId)) =>
                 LET parent == ParentAt(d.parentId, i) IN
                   /\ CentreX(e) = GlobalPoint(parent).x
                        + (Cos(before.orbitAngle) * d.satelliteOrbitRadius) \div F
                   /\ CentreY(e) = GlobalPoint(parent).y
                        + (Sin(before.orbitAngle) * d.satelliteOrbitRadius) \div F
                   /\ d.orbitAngle = before.orbitAngle + d.satelliteOrbitSpeed
            /\ (~OnEllipse(d.id) /\ Truthy(d.parentId) /\ ~IsRegistered(d.parentId)) =>
                 /\ CentreX(e) = (viewport'.w * F) \div 2
                 /\ CentreY(e) = (viewport'.h * F) \div 2
                 /\ d.orbitAngle = before.orbitAngle
            /\ (~OnEllipse(d.id) /\ ~Truthy(d.parentId)) =>
                 /\ CentreX(e) = GlobalPoint(d).x
                 /\ CentreY(e) = GlobalPoint(d).y
                 /\ d.orbitAngle = before.orbitAngle
            /\ ~OnEllipse(d.id) =>
                 /\ dom'[e].width = WidthAtDepth(d, F)
                 /\ dom'[e].height = HeightAtDepth(d, F)]_vars

\* at a blend above 0 a primary dot that names a registered parent and has a
\* nonzero satellite speed has been rendered with its orbit angle still 0,
\* away from the point the satellite model would give
C24_Witness ==
  /\ last.op \in RenderOps /\ last.renders = 1
  /\ ellipseBlend > 0
  /\ IsRegistered("dot1") /\ IsRegistered("dot2")
  /\ \E i \in 1..Len(dots) :
       LET d == objs[dots[i].ref] IN
         /\ d.id \in {"dot1", "dot2"}
         /\ Truthy(d.parentId) /\ IsRegistered(d.parentId)
         /\ d.satelliteOrbitSpeed # 0
         /\ d.orbitAngle = 0
         /\ dom[d.element].written

\* ------------------------------------------------------------ legacy resize
\* C25: in the legacy variant every run of the resize listener, the second and
\* later ones too, keeps the centre's share of the viewport: centerX over the
\* new width equals the centerX before over the width before, and likewise
\* centerY with the heights.
C25_ProportionalResize ==
  [][legacy'.op = "resized" =>
       /\ legacy'.centerX \div viewport'.w = legacy.centerX \div legacy.shown.w
       /\ legacy'.centerY \div viewport'.h = legacy.centerY \div legacy.shown.h]_vars

\* ------------------------------------------------------------ the listener
\* C26: at most one closure registered by initDotsAnimation listens for
\* resize, and resizeHandler is non-null exactly when one does, whatever
\* init and cleanup calls were made.
C26_OneListener ==
  /\ Cardinality(listeners) <= 1
  /\ (resizeHandler # 0) <=> (listeners # {})
  /\ listeners \subseteq {resizeHandler}

\* ------------------------------------------------------------ registry and page
\* registry d over heap o and page m agree: every attached synthesized element
\* is the element of exactly one entry, and every entry's key is its dot's id
Consistent(d, o, m) ==
  /\ \A e \in Elements :
       (e > NumAnchors /\ m[e].attached) =>
         Cardinality({i \in 1..Len(d) : o[d[i].ref].element = e}) = 1
  /\ \A i \in 1..Len(d) : o[d[i].ref].id = d[i].id

\* C27: createDot, splitDot, createSatellite, removeDot and the ticks of the
\* timelines keep registry and page in agreement: no synthesized element stays
\* attached once its entry is overwritten or deleted, and every entry is
\* stored under its own id.
C27_RegistryMatchesPage ==
  [][(/\ last'.op \in {"createDot", "splitDot", "createSatellite", "removeDot", "tick"}
      /\ Consistent(dots, objs, dom)) =>
       Consistent(dots', objs', dom')]_vars

\* ------------------------------------------------------------ render's writes
\* C28: a render call changes the model state in two ways only: the ellipse
\* centre becomes the viewport centre, and the orbitAngle of each dot placed
\* by the satellite branch with a registered parent grows by its
\* satelliteOrbitSpeed.  The registry, every other attribute of every dot, the
\* global orbit state, the ellipse radii, depth scale and angle, and the blend
\* stay as they were.
C28_RenderWrites ==
  [][last'.op = "render" =>
       /\ last'.renders = 1
       /\ dots' = dots
       /\ Len(objs') = Len(objs)
       /\ \A r \in 1..Len(objs) :
            objs'[r] = [objs[r] EXCEPT !.orbitAngle = objs'[r].orbitAngle]
       /\ \A i \in 1..Len(dots) :
            LET r == dots[i].ref
                d == objs[r]
                orbits == /\ Truthy(d.parentId)
                          /\ IsRegistered(d.parentId)
                          /\ ~OnEllipse(d.id)
            IN objs'[r].orbitAngle =
                 d.orbitAngle + (IF orbits THEN d.satelliteOrbitSpeed ELSE 0)
       /\ \A r \in 1..Len(objs) :
            (\A i \in 1..Len(dots) : dots[i].ref # r) => objs'[r] = objs[r]
       /\ ellipseOrbit' = [ellipseOrbit EXCEPT !.centerX = (viewport.w * F) \div 2,
                                              !.centerY = (viewport.h * F) \div 2]
       /\ globalState' = globalState
       /\ ellipseBlend' = ellipseBlend
       /\ viewport' = viewport
       /\ masters' = masters /\ anims' = anims
       /\ listeners' = listeners /\ resizeHandler' = resizeHandler]_vars

\* a render call has moved the ellipse centre to the centre of a resized
\* viewport and advanced a satellite, beside a dot with offsets of its own
C28_Witness ==
  /\ last.op = "render"
  /\ viewport.w = 1200
  /\ ellipseOrbit.centerX = 600 * F /\ ellipseOrbit.centerY = 300 * F
  /\ \E i \in 1..Len(dots) :
       LET d == objs[dots[i].ref] IN
         /\ Truthy(d.parentId) /\ IsRegistered(d.parentId)
         /\ d.satelliteOrbitSpeed # 0
         /\ d.orbitAngle = d.satelliteOrbitSpeed

\* ------------------------------------------------------------ both or neither
\* C29: in a render call at a blend above 0 with dot1 or dot2 not registered,
\* the primary dot that remains is placed by the satellite model when it has
\* a registered parent and by the base/global-orbit blend when it has no
\* parent id, is sized with depth multiplier 1, and no element's z-index
\* changes.
C29_BothOrNeither ==
  [][(/\ OneRender
      /\ ellipseBlend' > 0
      /\ ~(IsRegistered("dot1") /\ IsRegistered("dot2"))) =>
       /\ \A e \in Elements : dom'[e].zIndex = dom[e].zIndex
       /\ \A i \in 1..Len(dots) :
            LET r == dots[i].ref
                d == objs'[r]
                e == d.element
            IN d.id \in {"dot1", "dot2"} =>
                 /\ dom'[e].width = WidthAtDepth(d, F)
                 /\ dom'[e].height = HeightAtDepth(d, F)
                 /\ ~Truthy(d.parentId) =>
                      /\ CentreX(e) = GlobalPoint(d).x
                      /\ CentreY(e) = GlobalPoint(d).y
                 /\ (Truthy(d.parentId) /\ IsRegistered(d.parentId)) =>
                      LET parent == ParentAt(d.parentId, i) IN
                        /\ CentreX(e) = GlobalPoint(parent).x
                             + (Cos(objs[r].orbitAngle) * d.satelliteOrbitRadius) \div F
                        /\ CentreY(e) = GlobalPoint(parent).y
                             + (Sin(objs[r].orbitAngle) * d.satelliteOrbitRadius) \div F]_vars

\* at a blend above 0.5, dot2 having been removed, a render has sized dot1
\* with depth multiplier 1
C29_Witness ==
  /\ last.op \in RenderOps /\ last.renders = 1
  /\ ellipseBlend > 500
  /\ IsRegistered("dot1") /\ ~IsRegistered("dot2")
  /\ dom[ElementOf("dot1")].written
  /\ dom[ElementOf("dot1")].width = WidthAtDepth(objs[dots[PlaceOf("dot1")].ref], F)

=============================================================================
